---------------------------- MODULE Spec2Model ----------------------------
(***************************************************************************)
(* A model of the ssh-unari session program (src/main.go, src/pkg/fetch.go) *)
(* as a state machine: one bubbletea program per ssh session, each with its *)
(* own model value, an Init command that fetches the menus, Update handling *)
(* one message at a time and View rendering after every Update.  The zone   *)
(* registry created by zone.NewGlobal() is the one object all sessions      *)
(* share.                                                                   *)
(*                                                                          *)
(* Text that the program inspects character by character (item names,      *)
(* price names, menu dates) is a sequence of Unicode code points; text the  *)
(* program only compares for equality (restaurant titles, campus names) is  *)
(* a TLA+ string.  A time.Time is the number of hours since the Unix epoch  *)
(* (all Europe/Helsinki offsets and transitions are whole hours).           *)
(***************************************************************************)
EXTENDS Integers, Sequences, FiniteSets, TLC

VARIABLES
    pc,        \* pc[s]: position of session s's event loop
    sess,      \* sess[s]: the model value held by session s's program
    fetch,     \* fetch[s]: the Init command of session s and its message
    quitMsg,   \* quitMsg[s]: a tea.Quit message is on its way to the loop
    screen,    \* screen[s]: what the last View of session s returned
    zones,     \* the global zone registry: campus index -> rectangle
    clock      \* the wall clock read by time.Now()

vars == <<pc, sess, fetch, quitMsg, screen, zones, clock>>

---------------------------------------------------------------------------
(* Bounds of the model *)

\* number of ssh sessions that may connect
MaxSessions == 2
\* largest scrollOffset a wheel-down event is allowed to produce
MaxScroll == 6
\* how many days the selected date may move away from the clock's date
MaxDateShift == 1

Sessions == 1..MaxSessions

---------------------------------------------------------------------------
(* Program constants *)

LOCATIONS == <<"Keskusta", "Kumpula", "Meilahti", "Töölö", "Viikki">>

LOCATION_RESTAURANTS ==
    [c \in {LOCATIONS[i] : i \in 1..Len(LOCATIONS)} |->
        CASE c = "Keskusta" -> {"Myöhä Café & Bar", "Kaivopiha", "Kaisa-talo",
                                "Soc&Kom", "Rotunda",
                                "Porthania Opettajien ravintola", "Porthania",
                                "Topelias", "Olivia", "Metsätalo"}
          [] c = "Kumpula"  -> {"Physicum", "Exactum", "Chemicum",
                                "Chemicum Opettajien ravintola"}
          [] c = "Meilahti" -> {"Terkko", "Meilahti"}
          [] c = "Töölö"    -> {"Serpens"}
          [] c = "Viikki"   -> {"Tähkä", "Biokeskus 2", "Infokeskus alakerta",
                                "Viikuna", "Infokeskus", "Biokeskus"}]

keskustaView == 0
kumpulaView == 1
viikkiView == 4
totalViews == 5

\* the package-level variable unicafeData: declared, never assigned (nil)
unicafeData == << >>

---------------------------------------------------------------------------
(* Strings as sequences of code points *)

\* F applied to the value of e: a let-binding whose value is computed once
With(e, F(_)) == CHOOSE out \in { F(v) : v \in {e} } : TRUE

Max2(a, b) == IF a > b THEN a ELSE b

\* unicode.IsSpace
IsSpace(c) == c \in {9, 10, 11, 12, 13, 32, 133, 160}

\* unicode.ToLower on the letters the model uses (A-Z and the Latin-1 capitals)
LowerRune(c) ==
    IF (c >= 65 /\ c <= 90) \/ (c >= 192 /\ c <= 222 /\ c # 215)
    THEN c + 32 ELSE c

\* strings.ToLower
ToLower(str) == [i \in 1..Len(str) |-> LowerRune(str[i])]

\* str without its leading and trailing characters that satisfy Cut
TrimFunc(str, Cut(_)) ==
    With({ i \in 1..Len(str) : ~Cut(str[i]) },
         LAMBDA keep :
             IF keep = {} THEN << >>
             ELSE SubSeq(str,
                         CHOOSE i \in keep : \A j \in keep : i <= j,
                         CHOOSE i \in keep : \A j \in keep : i >= j))

\* strings.TrimSpace
TrimSpace(str) == TrimFunc(str, IsSpace)

\* strings.Trim(str, " ")
TrimBlank(str) == TrimFunc(str, LAMBDA c : c = 32)

\* Go's < on strings: bytewise, which for these code points is the
\* lexicographic order of the code point sequences
RECURSIVE StrLess(_, _)
StrLess(a, b) ==
    IF b = << >> THEN FALSE
    ELSE IF a = << >> THEN TRUE
    ELSE IF Head(a) # Head(b) THEN Head(a) < Head(b)
    ELSE StrLess(Tail(a), Tail(b))

\* strings.Split(str, " "): the fields between single spaces, empty ones kept
RECURSIVE SplitBlank(_, _)
SplitBlank(str, cur) ==
    IF str = << >> THEN << cur >>
    ELSE IF Head(str) = 32 THEN << cur >> \o SplitBlank(Tail(str), << >>)
    ELSE SplitBlank(Tail(str), Append(cur, Head(str)))

---------------------------------------------------------------------------
(* time.Time in Europe/Helsinki, at hour granularity *)

isLeap(y) == y % 4 = 0 /\ (y % 100 # 0 \/ y % 400 = 0)

\* the number of leap years among the years 1..n
leapsThrough(n) == (n \div 4) - (n \div 100) + (n \div 400)

\* days from 1970-01-01 to January 1 of year y
daysSinceEpoch(y) == 365 * (y - 1970) + leapsThrough(y - 1) - leapsThrough(1969)

\* days of year y before the first of month m, m in 1..13
daysBefore(y, m) ==
    <<0, 31, 59, 90, 120, 151, 181, 212, 243, 273, 304, 334, 365>>[m]
    + (IF isLeap(y) /\ m >= 3 THEN 1 ELSE 0)

\* the years the model's dates lie in
Years == 2023..2027

\* the year a day number (days since 1970-01-01) lies in
yearOfDay(n) ==
    CHOOSE y \in Years : daysSinceEpoch(y) <= n /\ n < daysSinceEpoch(y + 1)

\* the month and day of the day with number yd (from 0) within year y
monthDay(y, yd) ==
    With(CHOOSE m \in 1..12 : daysBefore(y, m) <= yd /\ yd < daysBefore(y, m + 1),
         LAMBDA m : [year |-> y, month |-> m, day |-> yd - daysBefore(y, m) + 1])

\* the civil fields of a day number
CivilOfDay(n) ==
    With(yearOfDay(n), LAMBDA y : monthDay(y, n - daysSinceEpoch(y)))

\* time.Weekday of a day number, Sunday = 0
Weekday(n) == (n + 4) % 7

\* day number of the last Sunday of month m (March or October) of year y
LastSunday(y, m) ==
    With(daysSinceEpoch(y) + daysBefore(y, m + 1) - 1,
         LAMBDA last : last - Weekday(last))

\* the Europe/Helsinki transitions of year y, in hours since the epoch (UTC):
\* summer time from 01:00 UTC on the last Sunday of March to 01:00 UTC on the
\* last Sunday of October
SummerStart(y) == LastSunday(y, 3) * 24 + 1
SummerEnd(y) == LastSunday(y, 10) * 24 + 1

\* the zone periods that begin or end in year y
zonePeriods(y) ==
    << [offset |-> 2, start |-> SummerEnd(y - 1), end |-> SummerStart(y)],
       [offset |-> 3, start |-> SummerStart(y), end |-> SummerEnd(y)],
       [offset |-> 2, start |-> SummerEnd(y), end |-> SummerStart(y + 1)] >>

\* the zone period of year y's table in effect at UTC hour u
periodAt(y, u) ==
    With(zonePeriods(y),
         LAMBDA ps : ps[CHOOSE k \in 1..3 : ps[k].start <= u /\ u < ps[k].end])

\* Location.lookup: the zone period in effect at UTC hour u
lookup(u) == With(yearOfDay(u \div 24), LAMBDA y : periodAt(y, u))

\* the zone adjustment of time.Date: from a wall-clock reading counted as if
\* it were UTC to the instant, with the offset in effect there
zoneAdjust(unix) ==
    With(lookup(unix),
         LAMBDA z : IF unix - z.offset < z.start \/ unix - z.offset >= z.end
                    THEN unix - lookup(unix - z.offset).offset
                    ELSE unix - z.offset)

\* time.Date(year, month, day, hour, 0, 0, 0, finland); day may lie outside
\* the month, the day count absorbs it
GoDate(year, month, day, hour) ==
    With((daysSinceEpoch(year) + daysBefore(year, month) + day - 1) * 24 + hour,
         LAMBDA unix : zoneAdjust(unix))

\* the civil fields of a wall-clock reading loc (hours, counted as if UTC)
civilOfWall(loc) ==
    With(CivilOfDay(loc \div 24),
         LAMBDA c : [year |-> c.year, month |-> c.month, day |-> c.day,
                     hour |-> loc % 24, weekday |-> Weekday(loc \div 24),
                     dayNo |-> loc \div 24])

\* Time.Date(), Time.Clock() and Time.Weekday() of instant t in Europe/Helsinki
Civil(t) == With(t + lookup(t).offset, LAMBDA loc : civilOfWall(loc))

\* a mutation of AddDate: adds 24 hours of elapsed time instead of a
\* calendar day
AddDate24h(t, days) == t + 24 * days

\* Time.AddDate(0, 0, days)
AddDate(t, days) ==
    With(Civil(t), LAMBDA c : GoDate(c.year, c.month, c.day + days, c.hour))

\* the decimal digits of a two-digit field, as code points
TwoDigits(n) == << 48 + (n \div 10), 48 + (n % 10) >>

\* Time.Format("02.01.")
FormatDayMonth(t) ==
    With(Civil(t),
         LAMBDA c : TwoDigits(c.day) \o << 46 >> \o TwoDigits(c.month) \o << 46 >>)

---------------------------------------------------------------------------
(* The dataset: fetch.Unicafe, fetch.Menu, fetch.Data *)

\* the string literals of renderRestaurant, as code points
lounas == <<108, 111, 117, 110, 97, 115>>
vegaanilounas == <<118, 101, 103, 97, 97, 110, 105, 108, 111, 117, 110, 97, 115>>
lisake == <<108, 105, 115, 228, 107, 101>>
jalkiruoka == <<106, 228, 108, 107, 105, 114, 117, 111, 107, 97>>
Lounas == <<76, 111, 117, 110, 97, 115>>
Vegaanilounas == <<86, 101, 103, 97, 97, 110, 105, 108, 111, 117, 110, 97, 115>>
Lisake == <<76, 105, 115, 228, 107, 101>>
Jalkiruoka == <<74, 228, 108, 107, 105, 114, 117, 111, 107, 97>>
Buffet == <<66, 117, 102, 102, 101, 116>>
Veg == <<86, 101, 103, 32>>

\* an item of a menu: fetch.Data with its Name and Price.Name
Item(name, priceName) == [Name |-> name, PriceName |-> priceName]
\* fetch.Menu
Menu(date, data) == [Date |-> date, Data |-> data]
\* fetch.Unicafe with its Title and Menu.Menus
Restaurant(title, menus) == [Title |-> title, Menus |-> menus]

\* a mutation of rank: the side dish ranked before the vegan meal
rankSwapped(name) ==
    With(ToLower(TrimSpace(name)),
         LAMBDA n : CASE n = lounas -> 0
                      [] n = vegaanilounas -> 2
                      [] n = lisake -> 1
                      [] n = jalkiruoka -> 3
                      [] OTHER -> 100)

\* the closure rank of renderRestaurant
rank(name) ==
    With(ToLower(TrimSpace(name)),
         LAMBDA n : CASE n = lounas -> 0
                      [] n = vegaanilounas -> 1
                      [] n = lisake -> 2
                      [] n = jalkiruoka -> 3
                      [] OTHER -> 100)

\* the name key of the comparison
nameKey(it) == ToLower(TrimSpace(it.Name))

\* the less function handed to sort.SliceStable
less(a, b) ==
    With(<< rank(a.PriceName), rank(b.PriceName) >>,
         LAMBDA r : IF r[1] # r[2] THEN r[1] < r[2]
                    ELSE StrLess(nameKey(a), nameKey(b)))

\* insertion from the right end: x moves left past every element it is
\* less than
RECURSIVE InsertStable(_, _)
InsertStable(sorted, x) ==
    IF sorted = << >> THEN << x >>
    ELSE IF less(x, sorted[Len(sorted)])
         THEN With(SubSeq(sorted, 1, Len(sorted) - 1),
                   LAMBDA front : Append(InsertStable(front, x),
                                         sorted[Len(sorted)]))
         ELSE Append(sorted, x)

\* sort.SliceStable(menu.Data, less): insertion sort, which is what the
\* library runs on a slice of up to 20 elements
RECURSIVE SliceStable(_)
SliceStable(data) ==
    IF data = << >> THEN << >>
    ELSE With(SubSeq(data, 1, Len(data) - 1),
              LAMBDA front :
                  With(SliceStable(front),
                       LAMBDA sorted : InsertStable(sorted, data[Len(data)])))

\* the switch on meal.Price.Name: the text put before the item's name
mealType(priceName) ==
    CASE priceName = Lounas -> Lounas \o << 32 >>
      [] priceName = Lisake -> Lisake \o << 32 >>
      [] priceName = Buffet -> Buffet \o << 32 >>
      [] priceName = Vegaanilounas -> Veg
      [] priceName = Jalkiruoka -> Jalkiruoka \o << 32 >>
      [] OTHER -> << >>

---------------------------------------------------------------------------
(* renderRestaurant: the content pane *)

\* the lines of the content pane
DateLine(t) ==
    With(Civil(t),
         LAMBDA c : [kind |-> "date", title |-> "", text |-> << >>,
                     date |-> << c.weekday, c.day, c.month, c.year >>])
BlankLine == [kind |-> "blank", title |-> "", text |-> << >>, date |-> << >>]
HeaderLine(title) ==
    [kind |-> "header", title |-> title, text |-> << >>, date |-> << >>]
ItemLine(meal) ==
    [kind |-> "item", title |-> "",
     text |-> mealType(meal.PriceName) \o TrimBlank(meal.Name), date |-> << >>]
NoDataLine == [kind |-> "nodata", title |-> "", text |-> << >>, date |-> << >>]

\* a mutation of dateMatches: the first token is compared, not the last
dateMatchesFirst(menu, currentDate) ==
    SplitBlank(menu.Date, << >>)[1] = currentDate

\* whether the last blank-separated token of the menu's date is currentDate,
\* the selected date formatted "02.01."
dateMatches(menu, currentDate) ==
    With(SplitBlank(menu.Date, << >>),
         LAMBDA restaurantDate :
             restaurantDate[Len(restaurantDate)] = currentDate)

\* slices.Contains(campusRestaurants, restaurant.Title) for campus index idx
\* a mutation of the campus test: a title of any campus's list passes
inCampusAny(title, idx) ==
    \E c \in DOMAIN LOCATION_RESTAURANTS : title \in LOCATION_RESTAURANTS[c]

inCampus(title, idx) == title \in LOCATION_RESTAURANTS[LOCATIONS[idx + 1]]

\* the lines one matching menu adds, "\n\n" header "\n" items, given the
\* menu's items as sorted
sectionLines(title, sorted) ==
    << BlankLine, HeaderLine(title) >>
    \o (IF sorted = << >> THEN << BlankLine >>
        ELSE [i \in 1..Len(sorted) |-> ItemLine(sorted[i])])

\* the lines the menus j.. of one restaurant add
RECURSIVE menusLines(_, _, _)
menusLines(restaurant, j, currentDate) ==
    IF j > Len(restaurant.Menus) THEN << >>
    ELSE (IF dateMatches(restaurant.Menus[j], currentDate)
          THEN With(SliceStable(restaurant.Menus[j].Data),
                    LAMBDA sorted : sectionLines(restaurant.Title, sorted))
          ELSE << >>)
         \o menusLines(restaurant, j + 1, currentDate)

\* the lines the restaurants i.. of the dataset add
RECURSIVE dataLines(_, _, _, _)
dataLines(data, i, idx, currentDate) ==
    IF i > Len(data) THEN << >>
    ELSE (IF inCampus(data[i].Title, idx)
          THEN menusLines(data[i], 1, currentDate) ELSE << >>)
         \o dataLines(data, i + 1, idx, currentDate)

\* a menu after the loop body: sort.SliceStable sorts menu.Data in place,
\* and the slice shares its array with the session's dataset
menuSorted(menu, currentDate) ==
    IF dateMatches(menu, currentDate)
    THEN [menu EXCEPT !.Data = SliceStable(menu.Data)] ELSE menu

\* the dataset after the loop of renderRestaurant(idx)
sortedInPlace(data, idx, currentDate) ==
    [i \in 1..Len(data) |->
        IF inCampus(data[i].Title, idx)
        THEN [data[i] EXCEPT !.Menus =
                 [j \in 1..Len(data[i].Menus) |->
                     menuSorted(data[i].Menus[j], currentDate)]]
        ELSE data[i]]

\* a mutation of the clamp: the largest offset is taken one too large
clampLoose(offset, totalLines, visibleHeight) ==
    With(Max2(totalLines - visibleHeight, 0) + 1,
         LAMBDA maxOffset : IF offset > maxOffset THEN maxOffset
                            ELSE IF offset < 0 THEN 0 ELSE offset)

\* the clamp of the scroll offset inside renderRestaurant
clamp(offset, totalLines, visibleHeight) ==
    With(Max2(totalLines - visibleHeight, 0),
         LAMBDA maxOffset : IF offset > maxOffset THEN maxOffset
                            ELSE IF offset < 0 THEN 0 ELSE offset)

\* the slice of the lines that is handed to the style
scrolled(lines, offset) ==
    IF offset > 0 /\ offset < Len(lines)
    THEN SubSeq(lines, offset + 1, Len(lines)) ELSE lines

\* the content of the pane before it is split and scrolled
contentLines(m, idx) ==
    With(With(FormatDayMonth(m.selectedDate),
              LAMBDA currentDate : dataLines(m.data, 1, idx, currentDate)),
         LAMBDA sections :
             << DateLine(m.selectedDate), BlankLine >>
             \o (IF sections # << >> THEN sections
                 ELSE << BlankLine, NoDataLine >>))

\* whether a line comes from a matching menu
IsSectionLine(l) == l.kind \in {"header", "item"}

\* renderRestaurant(idx) on model m: whether a section was written (found),
\* the content, the clamped offset and the slice handed to the style
renderRestaurant(m, idx) ==
    With(contentLines(m, idx),
         LAMBDA lines :
             [found |-> \E i \in 1..Len(lines) : IsSectionLine(lines[i]),
              content |-> lines,
              maxOffset |-> Max2(Len(lines) - (m.height - 3 - 2), 0),
              offset |-> clamp(m.scrollOffset, Len(lines), m.height - 3 - 2),
              lines |-> scrolled(lines, clamp(m.scrollOffset, Len(lines),
                                              m.height - 3 - 2))])

---------------------------------------------------------------------------
(* The zone registry and the sidebar *)

\* zone.Get of an id no scan has registered: a zero ZoneInfo
NoZone == [set |-> FALSE, StartX |-> 0, StartY |-> 0, EndX |-> 0, EndY |-> 0]

\* ZoneInfo.InBounds(msg)
InBounds(z, msg) ==
    /\ z.set
    /\ z.StartX <= z.EndX /\ z.StartY <= z.EndY
    /\ msg.X >= z.StartX /\ msg.Y >= z.StartY
    /\ msg.X <= z.EndX /\ msg.Y <= z.EndY

\* the rectangle of sidebar entry i (0-based) as renderSidebar lays it out:
\* the entries are 16 wide and 5 high (text, Padding(1, 2), Margin(1, 0)),
\* stacked inside the sidebar's border (1) and padding (1, 2)
sidebarZone(i) ==
    [set |-> TRUE, StartX |-> 3, StartY |-> 2 + 5 * i,
     EndX |-> 18, EndY |-> 6 + 5 * i]

\* renderSidebar and zone.Scan: MaxHeight(m.height - 1) cuts the sidebar
\* to the rows 0 .. m.height - 2; an entry whose closing mark is cut off is
\* not registered and its previous rectangle stays in the registry
scanZones(z, m) ==
    [i \in 0..(totalViews - 1) |->
        IF sidebarZone(i).EndY <= m.height - 2 THEN sidebarZone(i) ELSE z[i]]

---------------------------------------------------------------------------
(* model.View *)

\* the text of renderLoading, of renderTermTooSmall, and of no render yet
BlankScreen(kind) ==
    [kind |-> kind, selected |-> -1, found |-> FALSE, content |-> << >>,
     maxOffset |-> 0, offset |-> 0]

\* the text of the composed view, given what renderRestaurant returned
MainScreen(m, r) ==
    [kind |-> "main", selected |-> m.currentView, found |-> r.found,
     content |-> r.content, maxOffset |-> r.maxOffset, offset |-> r.offset]

\* the lines of the content pane a screen shows
Visible(scr) == scrolled(scr.content, scr.offset)

\* a mutation of tooSmall: both dimensions must be small
tooSmallBoth(m) == m.width < 40 /\ m.height < 10

\* the size test of View
tooSmall(m) == m.width < 40 \/ m.height < 10

\* View on model m: the returned text
viewText(m) ==
    IF m.loading THEN BlankScreen("loading")
    ELSE IF tooSmall(m) THEN BlankScreen("small")
    ELSE With(renderRestaurant(m, m.currentView), LAMBDA r : MainScreen(m, r))

\* whether View composes the three regions (and so sorts and scans)
composes(m) == ~m.loading /\ ~tooSmall(m)

\* View has a value receiver: of all it assigns (the clamped scrollOffset
\* among them), only the in-place sort of the shared menu.Data arrays
\* reaches the program's model
viewModel(m) ==
    IF composes(m)
    THEN With(FormatDayMonth(m.selectedDate),
              LAMBDA currentDate :
                  [m EXCEPT !.data = sortedInPlace(m.data, m.currentView,
                                                   currentDate)])
    ELSE m

---------------------------------------------------------------------------
(* model.Update *)

WindowSizeMsg(w, h) == [type |-> "WindowSizeMsg", Width |-> w, Height |-> h]
unicafeDataMsg(data) == [type |-> "unicafeDataMsg", data |-> data]
MouseMsg(x, y, button, action) ==
    [type |-> "MouseMsg", X |-> x, Y |-> y, Button |-> button,
     Action |-> action]
KeyMsg(key) == [type |-> "KeyMsg", key |-> key]

\* a mutation of the loop's body: the scroll offset is kept
clickStepKeepScroll(m, i, msg, z) ==
    IF m.currentView # i /\ InBounds(z[i], msg)
    THEN [m EXCEPT !.currentView = i] ELSE m

\* the body of the loop over LOCATIONS of the mouse case, at index i
clickStep(m, i, msg, z) ==
    IF m.currentView # i /\ InBounds(z[i], msg)
    THEN [m EXCEPT !.currentView = i, !.scrollOffset = 0] ELSE m

\* the loop over LOCATIONS of the mouse case, from index i on
RECURSIVE clickLoop(_, _, _, _)
clickLoop(m, i, msg, z) ==
    IF i >= totalViews THEN m
    ELSE With(clickStep(m, i, msg, z),
              LAMBDA m1 : clickLoop(m1, i + 1, msg, z))

\* the wheel-down branch
wheelDown(m) == [m EXCEPT !.scrollOffset = m.scrollOffset + 2]

\* a mutation of the wheel-up branch: the test of the offset is dropped
wheelUpUnguarded(m) == [m EXCEPT !.scrollOffset = m.scrollOffset - 2]

\* the wheel-up branch
wheelUp(m) ==
    IF m.scrollOffset >= 2 THEN [m EXCEPT !.scrollOffset = m.scrollOffset - 2]
    ELSE m

\* the two wheel tests of the mouse case
wheel(m, msg) ==
    CASE msg.Button = "WheelDown" -> wheelDown(m)
      [] msg.Button = "WheelUp" -> wheelUp(m)
      [] OTHER -> m

\* a mutation of the mouse case: the test of action and button is dropped
updateMouseAnyAction(m, msg, z) == clickLoop(wheel(m, msg), 0, msg, z)

\* case tea.MouseMsg
updateMouse(m, msg, z) ==
    IF msg.Action # "Release" \/ msg.Button # "Left" THEN wheel(m, msg)
    ELSE clickLoop(wheel(m, msg), 0, msg, z)

\* a mutation of the "up" case: no wrap-around
campusUpNoWrap(m) ==
    [m EXCEPT !.currentView = m.currentView - 1, !.scrollOffset = 0]

\* case "up", "k"
campusUp(m) ==
    [m EXCEPT !.currentView = IF m.currentView - 1 < 0 THEN totalViews - 1
                              ELSE m.currentView - 1,
              !.scrollOffset = 0]

\* case "down", "j"
campusDown(m) ==
    [m EXCEPT !.currentView = IF m.currentView + 1 >= totalViews THEN 0
                              ELSE m.currentView + 1,
              !.scrollOffset = 0]

\* case "right", "l" (days = 1) and case "left", "h" (days = -1)
dateShift(m, days) ==
    [m EXCEPT !.selectedDate = AddDate(m.selectedDate, days),
              !.scrollOffset = 0]

\* case "t", "T"
jumpToToday(m, now) == [m EXCEPT !.selectedDate = now, !.scrollOffset = 0]

\* case tea.KeyMsg; "q" and "ctrl+c" return tea.Quit and leave m alone
updateKey(m, key, now) ==
    CASE key \in {"up", "k"} -> campusUp(m)
      [] key \in {"down", "j"} -> campusDown(m)
      [] key \in {"right", "l"} -> dateShift(m, 1)
      [] key \in {"left", "h"} -> dateShift(m, -1)
      [] key \in {"t", "T"} -> jumpToToday(m, now)
      [] OTHER -> m

\* a mutation of the unicafeDataMsg case: the loading flag is left set
dataLoadedStillLoading(m, msg) == [m EXCEPT !.data = msg.data]

\* a mutation of the unicafeDataMsg case: the view starts over
dataLoadedStartsOver(m, msg) ==
    [m EXCEPT !.loading = FALSE, !.data = msg.data,
              !.currentView = kumpulaView, !.scrollOffset = 0]

\* case unicafeDataMsg
dataLoaded(m, msg) == [m EXCEPT !.loading = FALSE, !.data = msg.data]

\* a mutation of the WindowSizeMsg case: width and height are exchanged
windowSizeSwapped(m, msg) ==
    [m EXCEPT !.height = msg.Width, !.width = msg.Height]

\* case tea.WindowSizeMsg
windowSize(m, msg) == [m EXCEPT !.height = msg.Height, !.width = msg.Width]

\* Update(msg) on model m, with the zone registry z and the clock reading
\* now: the model it returns
Update(m, msg, z, now) ==
    CASE msg.type = "WindowSizeMsg" -> windowSize(m, msg)
      [] msg.type = "unicafeDataMsg" -> dataLoaded(m, msg)
      [] msg.type = "MouseMsg" -> updateMouse(m, msg, z)
      [] msg.type = "KeyMsg" -> updateKey(m, msg.key, now)

\* whether Update(msg) returns the command tea.Quit
returnsQuit(msg) == msg.type = "KeyMsg" /\ msg.key \in {"q", "ctrl+c"}

---------------------------------------------------------------------------
(* The sessions: teaHandler, the Init command, the event loop *)

\* the model value of a session that has not connected
NoModel ==
    [width |-> 0, height |-> 0, currentView |-> 0, data |-> << >>,
     selectedDate |-> 0, loading |-> FALSE, scrollOffset |-> 0]

\* the Init command of a session: st is "none" before the program runs,
\* "running" while fetch.GetUnicafe is out, "sent" once the closure has
\* returned its unicafeDataMsg, "delivered" once Update has handled it;
\* net records how the request went: "ok", "http" (http.Get failed) or
\* "json" (the body did not decode)
NoFetch == [st |-> "none", net |-> "ok", msg |-> unicafeDataMsg(<< >>)]

\* what the network does to a request: how it went, and what
\* json.Unmarshal had decoded into data when it returned
Response(net, decoded) == [net |-> net, decoded |-> decoded]

\* a mutation of GetUnicafe: the error of json.Unmarshal is not checked
GetUnicafeUnchecked(resp) ==
    IF resp.net = "http" THEN [data |-> << >>, err |-> TRUE]
    ELSE [data |-> resp.decoded, err |-> FALSE]

\* fetch.GetUnicafe
GetUnicafe(resp) ==
    IF resp.net = "http" THEN [data |-> << >>, err |-> TRUE]
    ELSE IF resp.net = "json" THEN [data |-> << >>, err |-> TRUE]
    ELSE [data |-> resp.decoded, err |-> FALSE]

\* the closure Init returns, given what fetch.GetUnicafe came back with
initCmd(result) ==
    IF result.err THEN unicafeDataMsg(<< >>) ELSE unicafeDataMsg(result.data)

\* teaHandler: a session connects with a pty of w x h; bubbletea then runs
\* the Init command and renders
Connect(s, w, h) ==
    /\ pc[s] = "idle"
    /\ sess' = [sess EXCEPT ![s] =
                   [width |-> w, height |-> h, currentView |-> kumpulaView,
                    data |-> unicafeData, selectedDate |-> clock,
                    loading |-> TRUE, scrollOffset |-> 0]]
    /\ fetch' = [fetch EXCEPT ![s] = [NoFetch EXCEPT !.st = "running"]]
    /\ pc' = [pc EXCEPT ![s] = "view"]
    /\ UNCHANGED <<quitMsg, screen, zones, clock>>

\* the closure of Init finishes: the request came back with resp, and the
\* closure's message is on its way to the event loop
FetchReturn(s, resp) ==
    /\ fetch[s].st = "running"
    /\ fetch' = [fetch EXCEPT ![s] =
                    [st |-> "sent", net |-> resp.net,
                     msg |-> initCmd(GetUnicafe(resp))]]
    /\ UNCHANGED <<pc, sess, quitMsg, screen, zones, clock>>

\* the event loop hands msg to Update and goes on to render
Handle(s, msg) ==
    /\ pc[s] = "wait"
    /\ sess' = [sess EXCEPT ![s] = Update(sess[s], msg, zones, clock)]
    /\ quitMsg' = [quitMsg EXCEPT ![s] = quitMsg[s] \/ returnsQuit(msg)]
    /\ pc' = [pc EXCEPT ![s] = "view"]
    /\ UNCHANGED <<screen, zones, clock>>

\* Update receives the unicafeDataMsg of the session's Init command
UpdateData(s) ==
    /\ fetch[s].st = "sent"
    /\ Handle(s, fetch[s].msg)
    /\ fetch' = [fetch EXCEPT ![s].st = "delivered",
                              ![s].msg = unicafeDataMsg(<< >>)]

\* Update receives a tea.WindowSizeMsg
UpdateWindowSize(s, w, h) ==
    /\ Handle(s, WindowSizeMsg(w, h))
    /\ UNCHANGED fetch

\* Update receives a tea.MouseMsg
UpdateMouse(s, msg) ==
    /\ msg.Button = "WheelDown" => sess[s].scrollOffset + 2 <= MaxScroll
    /\ Handle(s, msg)
    /\ UNCHANGED fetch

\* the number of calendar days from instant u to instant t
dayDiff(t, u) == Civil(t).dayNo - Civil(u).dayNo

\* Update receives a tea.KeyMsg
UpdateKey(s, key) ==
    /\ Handle(s, KeyMsg(key))
    /\ dayDiff(sess'[s].selectedDate, clock) \in (-MaxDateShift)..MaxDateShift
    /\ UNCHANGED fetch

\* the event loop renders: View on the session's model
View(s) ==
    /\ pc[s] = "view"
    /\ screen' = [screen EXCEPT ![s] = viewText(sess[s])]
    /\ sess' = [sess EXCEPT ![s] = viewModel(sess[s])]
    /\ zones' = IF composes(sess[s]) THEN scanZones(zones, sess[s]) ELSE zones
    /\ pc' = [pc EXCEPT ![s] = "wait"]
    /\ UNCHANGED <<fetch, quitMsg, clock>>

\* the event loop receives the tea.Quit message and the program ends; a
\* message of the Init command that has not been handled is never handled
Quit(s) ==
    /\ pc[s] = "wait"
    /\ quitMsg[s]
    /\ pc' = [pc EXCEPT ![s] = "done"]
    /\ UNCHANGED <<sess, fetch, quitMsg, screen, zones, clock>>

\* time passes
Tick(t) ==
    /\ t > clock
    /\ clock' = t
    /\ UNCHANGED <<pc, sess, fetch, quitMsg, screen, zones>>

\* the state before any session connects, at clock reading t
InitAt(t) ==
    /\ clock = t
    /\ pc = [s \in Sessions |-> "idle"]
    /\ sess = [s \in Sessions |-> NoModel]
    /\ fetch = [s \in Sessions |-> NoFetch]
    /\ quitMsg = [s \in Sessions |-> FALSE]
    /\ screen = [s \in Sessions |-> BlankScreen("none")]
    /\ zones = [i \in 0..(totalViews - 1) |-> NoZone]

---------------------------------------------------------------------------
(* Inputs *)

\* item names
Soup == <<83, 111, 117, 112>>
Rice == <<82, 105, 99, 101>>
Tofu == <<84, 111, 102, 117>>
Cake == <<67, 97, 107, 101>>

\* a menu date as the upstream writes it: weekday, blank, "DD.MM."
DateStr(t) == <<77, 97, 32>> \o FormatDayMonth(t)

\* the clock reading at which the sessions of Spec start
T0 == GoDate(2025, 11, 3, 17)

\* a dataset as the fetch returns it: two Kumpula restaurants with a menu
\* for the day of T0, a Töölö restaurant with a menu for the next day, and a
\* restaurant the campus table does not list
DataMain ==
    << Restaurant("Physicum",
          << Menu(DateStr(T0), << Item(Cake, Jalkiruoka),
                                  Item(Tofu, Vegaanilounas),
                                  Item(Soup, Lounas) >>) >>),
       Restaurant("Kahvila",
          << Menu(DateStr(T0), << Item(Soup, Lounas) >>) >>),
       Restaurant("Exactum",
          << Menu(DateStr(T0 - 24), << Item(Rice, Lisake) >>),
             Menu(DateStr(T0), << Item(Rice, Lisake), Item(Soup, Buffet),
                                  Item(Tofu, Lounas) >>) >>),
       Restaurant("Serpens",
          << Menu(DateStr(T0 + 24), << Item(Tofu, Vegaanilounas),
                                       Item(Soup, Lounas) >>) >>) >>

\* how the request may go: no connection, a body that stops decoding after
\* the first restaurant, an empty list, the dataset
Responses ==
    { Response("http", << >>),
      Response("json", SubSeq(DataMain, 1, 1)),
      Response("ok", << >>),
      Response("ok", DataMain) }

\* terminal sizes: too narrow, too low, low, tall
Sizes == { <<30, 30>>, <<50, 8>>, <<50, 12>>, <<80, 30>> }

\* the keys of Update's switch, one spelling of each case but the first, and
\* a key it does not handle
Keys == {"q", "ctrl+c", "up", "down", "right", "left", "t", "x"}

\* pointer positions: on the first and on the last sidebar entry, and on the
\* content pane
Points == { <<5, 4>>, <<5, 24>>, <<30, 4>> }

\* the left button released and pressed and the right button released at
\* each position, and the wheel turned up and down
MouseMsgs ==
    { MouseMsg(p[1], p[2], ba[1], ba[2]) :
        p \in Points,
        ba \in { <<"Left", "Release">>, <<"Left", "Press">>,
                 <<"Right", "Release">> } }
    \cup { MouseMsg(30, 4, b, "Press") : b \in {"WheelUp", "WheelDown"} }

---------------------------------------------------------------------------
(* Spec: one session with every kind of event *)

Init == InitAt(T0)

Next ==
    \E s \in {1} :
        \/ \E sz \in Sizes : Connect(s, sz[1], sz[2])
        \/ \E resp \in Responses : FetchReturn(s, resp)
        \/ UpdateData(s)
        \/ \E sz \in Sizes : UpdateWindowSize(s, sz[1], sz[2])
        \/ \E msg \in MouseMsgs : UpdateMouse(s, msg)
        \/ \E key \in Keys : UpdateKey(s, key)
        \/ View(s)
        \/ Quit(s)

Spec == Init /\ [][Next]_vars

---------------------------------------------------------------------------
(* Claims checked under Spec *)

Connected == { s \in Sessions : pc[s] # "idle" }

\* the model Update returns in session s for msg, in the current state
After(s, msg) == Update(sess[s], msg, zones, clock)

\* C1: the campus index of a session stays in 0..4 whatever events it
\* handles; "up"/"k" takes index 0 to 4 and any other index one down,
\* "down"/"j" takes index 4 to 0 and any other index one up.
C1_CampusIndexWraps ==
    \A s \in Connected :
        /\ sess[s].currentView \in 0..4
        /\ \A key \in {"up", "k"} :
               After(s, KeyMsg(key)).currentView =
                   IF sess[s].currentView = 0 THEN 4
                   ELSE sess[s].currentView - 1
        /\ \A key \in {"down", "j"} :
               After(s, KeyMsg(key)).currentView =
                   IF sess[s].currentView = 4 THEN 0
                   ELSE sess[s].currentView + 1

\* C1 witness: the last render showed campus 0, the model is at campus 4 and
\* no zone of campus 4 is registered: "up" wrapped around
C1_Witness ==
    \E s \in Sessions :
        /\ pc[s] = "view" /\ screen[s].kind = "main"
        /\ screen[s].selected = 0 /\ sess[s].currentView = 4
        /\ ~zones[4].set

\* C2 as claimed: once a render has happened, the stored scrollOffset is at
\* most the maximum offset that render computed.
C2_StoredScrollWithinMax ==
    \A s \in Sessions :
        pc[s] = "wait" /\ screen[s].kind = "main" =>
            sess[s].scrollOffset <= screen[s].maxOffset

C5_NavigationResetsScroll ==
    \A s \in Connected :
        sess[s].scrollOffset > 0 =>
            /\ \A key \in {"up", "k", "down", "j", "left", "h", "right", "l",
                           "t", "T"} :
                   After(s, KeyMsg(key)).scrollOffset = 0
            /\ \A msg \in MouseMsgs :
                   /\ msg.Button = "Left" /\ msg.Action = "Release"
                   /\ \E i \in 0..4 : /\ i # sess[s].currentView
                                      /\ InBounds(zones[i], msg)
                   => After(s, msg).scrollOffset = 0

\* C5 witness: the last render showed a scrolled pane of another campus and
\* the event since then left the offset at 0
C5_Witness ==
    \E s \in Sessions :
        /\ pc[s] = "view" /\ screen[s].kind = "main" /\ screen[s].offset > 0
        /\ sess[s].currentView # screen[s].selected
        /\ sess[s].scrollOffset = 0

\* the content pane of a lookup that found nothing, for selected date t
NotFoundContent(t) == << DateLine(t), BlankLine, BlankLine, NoDataLine >>

\* C6: a failed fetch (no connection, or a body that does not decode) does
\* not end the session (a session ends only after a quit key); its
\* completion message is still sent, handling it clears the loading flag,
\* and from then on the lookup of every campus and date finds nothing: the
\* pane holds the "No data for this date." text and no restaurant header.
C6_FetchFailureShowsNoData ==
    \A s \in Sessions :
        /\ pc[s] = "done" => quitMsg[s]
        /\ fetch[s].net # "ok" =>
              /\ fetch[s].st = "sent" => fetch[s].msg = unicafeDataMsg(<< >>)
              /\ fetch[s].st = "delivered" =>
                    /\ ~sess[s].loading
                    /\ LET r == renderRestaurant(sess[s], sess[s].currentView)
                       IN  /\ ~r.found
                           /\ r.content = NotFoundContent(sess[s].selectedDate)
                    /\ pc[s] = "wait" /\ screen[s].kind = "main" =>
                           /\ ~screen[s].found
                           /\ Visible(screen[s]) =
                                  NotFoundContent(sess[s].selectedDate)

\* C6 witness: a session whose request did not decode, after its message was
\* handled, showing the composed view of a campus it navigated to
C6_Witness ==
    \E s \in Sessions :
        /\ fetch[s].net = "json" /\ fetch[s].st = "delivered"
        /\ pc[s] = "wait" /\ screen[s].kind = "main"
        /\ screen[s].selected = 0

---------------------------------------------------------------------------
(* MultiSpec: concurrent sessions that render and click *)

\* a left-button release on the first and on the second sidebar entry
Clicks == { MouseMsg(5, 4, "Left", "Release"), MouseMsg(5, 9, "Left", "Release") }

MultiNext ==
    \E s \in Sessions :
        \/ \E sz \in {<<50, 12>>, <<80, 30>>} : Connect(s, sz[1], sz[2])
        \/ FetchReturn(s, Response("ok", DataMain))
        \/ UpdateData(s)
        \/ \E msg \in Clicks : UpdateMouse(s, msg)
        \/ View(s)

MultiSpec == Init /\ [][MultiNext]_vars

\* C4 as claimed: a step that handles no event of session t and renders
\* nothing in session t (the step of another session) leaves the outcome of
\* every later sidebar click of session t as it was.
C4_OtherSessionsLeaveClicksAlone ==
    [][\A t \in Connected :
           pc'[t] = pc[t] /\ sess'[t] = sess[t] =>
               \A msg \in Clicks :
                   Update(sess'[t], msg, zones', clock') = After(t, msg)]_vars

---------------------------------------------------------------------------
(* LiveSpec: one session whose fetch returns and whose messages are handled *)

LiveNext ==
    \E s \in {1} :
        \/ \E sz \in {<<30, 30>>, <<80, 30>>} : Connect(s, sz[1], sz[2])
        \/ \E resp \in Responses : FetchReturn(s, resp)
        \/ UpdateData(s)
        \/ UpdateWindowSize(s, 50, 12)
        \/ UpdateMouse(s, MouseMsg(30, 4, "WheelDown", "Press"))
        \/ \E key \in {"q", "down", "right", "t"} : UpdateKey(s, key)
        \/ View(s)
        \/ Quit(s)

\* http.Get returns (its client has no deadline, the claim assumes it); the
\* event loop renders after every Update, and a message sent on the
\* program's channel is received while the program runs
Fairness ==
    \A s \in {1} :
        /\ WF_vars(\E resp \in Responses : FetchReturn(s, resp))
        /\ SF_vars(UpdateData(s))
        /\ WF_vars(View(s))

LiveSpec == Init /\ [][LiveNext]_vars /\ Fairness

\* C7 as claimed, in what it says of a session that has ended: a session
\* that eventually reaches loading = false cannot have ended with
\* loading = true.
C7_NoSessionEndsLoading ==
    \A s \in Sessions : pc[s] = "done" => ~sess[s].loading

\* C7 amended: a session starts with loading = true and keeps it until its
\* one fetch-completion message is handled; handling it sets loading = false
\* for good; no second completion message is handled; and the session
\* eventually has loading = false or has ended on a quit key.
C7_LoadingEndsUnlessQuit ==
    /\ [](\A s \in Connected :
              sess[s].loading = (fetch[s].st # "delivered"))
    /\ [][\A s \in Connected :
              /\ ~sess[s].loading => ~sess'[s].loading
              /\ fetch[s].st = "delivered" => fetch'[s] = fetch[s]]_vars
    /\ \A s \in Sessions :
           [](pc[s] # "idle" => <>(~sess[s].loading \/ pc[s] = "done"))

\* C7 witness: the completion message was handled after a key and a wheel
\* event, and the loading screen is still the last render
C7_Witness ==
    \E s \in Sessions :
        /\ fetch[s].st = "delivered" /\ ~sess[s].loading
        /\ pc[s] = "view" /\ screen[s] = BlankScreen("loading")
        /\ sess[s].currentView # kumpulaView /\ sess[s].scrollOffset > 0

---------------------------------------------------------------------------
(* RenderSpec: one session over datasets that exercise the lookup and the *)
(* sort                                                                   *)

Beans == <<66, 101, 97, 110, 115>>
beans == <<98, 101, 97, 110, 115>>
apples == <<97, 112, 112, 108, 101, 115>>

\* one Kumpula restaurant whose menu of the day holds two side dishes, a
\* dessert, a vegan meal and an item with a label the switch does not know
DataSort ==
    << Restaurant("Chemicum",
          << Menu(DateStr(T0), << Item(Cake, Jalkiruoka), Item(Soup, Buffet),
                                  Item(Beans, Lisake), Item(apples, Lisake),
                                  Item(Tofu, Vegaanilounas) >>) >>) >>

\* a menu with two items whose names differ only in case, and an item whose
\* label has a leading blank
DataTies ==
    << Restaurant("Chemicum",
          << Menu(DateStr(T0), << Item(Beans, Lisake), Item(beans, Lisake),
                                  Item(apples, << 32 >> \o Lisake) >>) >>) >>

\* menu dates in other shapes: the bare "DD.MM.", a trailing blank, the
\* weekday after the date, a menu without items; a restaurant of no campus
DataDates ==
    << Restaurant("Exactum",
          << Menu(FormatDayMonth(T0), << Item(Soup, Lounas) >>),
             Menu(DateStr(T0) \o << 32 >>, << Item(Rice, Lisake) >>),
             Menu(FormatDayMonth(T0) \o << 32, 77, 97 >>,
                  << Item(Tofu, Lounas) >>),
             Menu(DateStr(T0), << >>) >>),
       Restaurant("Kahvila",
          << Menu(DateStr(T0), << Item(Soup, Lounas) >>) >>),
       Restaurant("Physicum",
          << Menu(DateStr(T0 - 24), << Item(Cake, Jalkiruoka) >>),
             Menu(<< >>, << Item(Rice, Lisake) >>) >>) >>

RenderResponses ==
    { Response("ok", DataMain), Response("ok", DataSort),
      Response("ok", DataTies), Response("ok", DataDates) }

RenderNext ==
    \E s \in {1} :
        \/ Connect(s, 80, 30)
        \/ \E resp \in RenderResponses : FetchReturn(s, resp)
        \/ UpdateData(s)
        \/ \E key \in {"down", "left", "right"} : UpdateKey(s, key)
        \/ View(s)

RenderSpec == Init /\ [][RenderNext]_vars

---------------------------------------------------------------------------
(* Claims checked under RenderSpec *)

\* the sessions whose last render composed the view that is still current
Rendered == { s \in Sessions : pc[s] = "wait" /\ screen[s].kind = "main" }

\* the menus of a dataset in order, each with its restaurant's title
RECURSIVE MenusFrom(_, _)
MenusFrom(data, i) ==
    IF i > Len(data) THEN << >>
    ELSE [j \in 1..Len(data[i].Menus) |->
             [Title |-> data[i].Title, Date |-> data[i].Menus[j].Date,
              Data |-> data[i].Menus[j].Data]]
         \o MenusFrom(data, i + 1)

\* the part of a menu date after its last blank
LastToken(str) ==
    LET blanks == { k \in 1..Len(str) : str[k] = 32 }
        last == IF blanks = {} THEN 0
                ELSE CHOOSE k \in blanks : \A l \in blanks : l <= k
    IN  SubSeq(str, last + 1, Len(str))

\* the day and month of instant t, written "DD.MM."
DayMonthToken(t) ==
    << 48 + (Civil(t).day \div 10), 48 + (Civil(t).day % 10), 46,
       48 + (Civil(t).month \div 10), 48 + (Civil(t).month % 10), 46 >>

\* the menus session s should show: those of the restaurants its campus
\* lists whose date ends in the selected day and month
Matching(s) ==
    SelectSeq(MenusFrom(sess[s].data, 1),
              LAMBDA mn :
                  /\ mn.Title \in
                         LOCATION_RESTAURANTS[LOCATIONS[screen[s].selected + 1]]
                  /\ LastToken(mn.Date) = DayMonthToken(sess[s].selectedDate))

\* the positions of the restaurant headers in a content pane
Headers(content) ==
    SelectSeq([i \in 1..Len(content) |-> i],
              LAMBDA i : content[i].kind = "header")

\* the item lines of the k-th section of a content pane
SectionItems(content, k) ==
    LET hs == Headers(content)
        to == IF k < Len(hs) THEN hs[k + 1] - 1 ELSE Len(content)
    IN  SelectSeq(SubSeq(content, hs[k] + 1, to),
                  LAMBDA l : l.kind = "item")

\* the category ranks of the claim
CategoryRank(label) ==
    LET n == ToLower(TrimSpace(label))
    IN  IF n = lounas THEN 0
        ELSE IF n = vegaanilounas THEN 1
        ELSE IF n = lisake THEN 2
        ELSE IF n = jalkiruoka THEN 3
        ELSE 100

\* the sort key of the claim: rank, then lowercased-trimmed name
SortKey(it) == << CategoryRank(it.PriceName), ToLower(TrimSpace(it.Name)) >>

\* key a does not come after key b
KeyLeq(a, b) == a[1] < b[1] \/ (a[1] = b[1] /\ ~StrLess(b[2], a[2]))

\* items is in the order of the claim
InKeyOrder(items) ==
    \A k \in 1..(Len(items) - 1) :
        KeyLeq(SortKey(items[k]), SortKey(items[k + 1]))

\* the permutations of a sequence
Perms(seq) ==
    { [i \in 1..Len(seq) |-> seq[f[i]]] :
        f \in { g \in [1..Len(seq) -> 1..Len(seq)] :
                  \A i, j \in 1..Len(seq) : i # j => g[i] # g[j] } }

\* the items of seq whose key is key, in their order
WithKey(seq, key) == SelectSeq(seq, LAMBDA it : SortKey(it) = key)

\* C8 as claimed: every section shows its items in (rank, name key) order,
\* and sorting any permutation of a shown menu's items gives the shown order.
C8_OrderSameForEveryPermutation ==
    \A s \in Rendered :
        \A k \in 1..Len(Matching(s)) :
            LET shown == Matching(s)[k].Data
            IN  /\ InKeyOrder(shown)
                /\ \A p \in Perms(shown) : SliceStable(p) = shown

\* C8 amended: every section shows its items in (rank, name key) order, the
\* lines are those items in that order, and sorting any permutation of the
\* items gives an order by key in which items of equal key keep their input
\* order; so the shown order is the same for every permutation when no two
\* items share a key.
C8_OrderByKeyTiesInInputOrder ==
    \A s \in Rendered :
        /\ Len(Headers(screen[s].content)) = Len(Matching(s))
        /\ \A k \in 1..Len(Matching(s)) :
            LET shown == Matching(s)[k].Data
                keys == { SortKey(shown[i]) : i \in 1..Len(shown) }
            IN  /\ InKeyOrder(shown)
                /\ SectionItems(screen[s].content, k) =
                       [i \in 1..Len(shown) |-> ItemLine(shown[i])]
                /\ \A p \in Perms(shown) :
                       /\ InKeyOrder(SliceStable(p))
                       /\ \A key \in keys :
                              WithKey(SliceStable(p), key) = WithKey(p, key)
                       /\ Cardinality(keys) = Len(shown) =>
                              SliceStable(p) = shown

\* C8 witness: the rendered section holds the two items that share a key in
\* the order they were fetched in, after the item whose key is smaller
C8_Witness ==
    \E s \in Rendered :
        /\ screen[s].found
        /\ sess[s].data[1].Menus[1].Data =
               << Item(apples, << 32 >> \o Lisake), Item(Beans, Lisake),
                  Item(beans, Lisake) >>

\* C9: the lookup is Found exactly when some restaurant of the campus table
\* has a menu whose date ends in the selected day and month; it then shows
\* one section per matching (restaurant, menu), in dataset order, and
\* otherwise the pane is the date, the "No data for this date." text and no
\* restaurant header.
C9_FoundIffCampusMenuMatches ==
    \A s \in Rendered :
        LET content == screen[s].content
            hs == Headers(content)
        IN  /\ screen[s].found = (Len(Matching(s)) > 0)
            /\ [k \in 1..Len(hs) |-> content[hs[k]].title] =
                   [k \in 1..Len(Matching(s)) |-> Matching(s)[k].Title]
            /\ ~screen[s].found =>
                   content = NotFoundContent(sess[s].selectedDate)

\* C9 witness: a render of the dataset whose dates come in several shapes:
\* two sections for the two matching menus of one restaurant
C9_Witness ==
    \E s \in Rendered :
        /\ screen[s].found
        /\ Len(sess[s].data) = 3 /\ Len(sess[s].data[1].Menus) = 4
        /\ Len(Headers(screen[s].content)) = 2

---------------------------------------------------------------------------
(* DateSpec: one session started at the ends of months and years and in the *)
(* nights Europe/Helsinki changes its offset                                *)

\* clock readings: four hours of the days before and at a month's end, a
\* leap day, the year's end, and every hour of the nights of 30 March and
\* 26 October 2025 in which the offset changes
Instants ==
    { GoDate(d[1], d[2], d[3], h) :
        d \in { <<2025, 1, 31>>, <<2024, 2, 28>>, <<2024, 2, 29>>,
                <<2025, 2, 28>>, <<2025, 4, 30>>, <<2025, 12, 31>>,
                <<2025, 3, 29>>, <<2025, 3, 30>>, <<2025, 10, 25>>,
                <<2025, 10, 26>> },
        h \in {0, 3, 12, 23} }
    \cup { GoDate(2025, 3, 30, 0) + k : k \in 0..4 }
    \cup { GoDate(2025, 10, 26, 0) + k : k \in 0..5 }

DateInit == \E t \in Instants : InitAt(t)

DateNext ==
    \E s \in {1} :
        \/ Connect(s, 80, 30)
        \/ \E key \in {"left", "right", "t"} : UpdateKey(s, key)
        \/ View(s)
        \/ \E t \in Instants : t <= clock + 24 /\ Tick(t)

DateSpec == DateInit /\ [][DateNext]_vars

\* the number of days of month m of year y
DaysIn(y, m) ==
    IF m = 2 THEN (IF y % 4 = 0 /\ (y % 100 # 0 \/ y % 400 = 0) THEN 29 ELSE 28)
    ELSE IF m \in {4, 6, 9, 11} THEN 30 ELSE 31

\* the calendar date of an instant in Europe/Helsinki
DateOf(t) == << Civil(t).year, Civil(t).month, Civil(t).day >>

\* the calendar date after date d
NextDay(d) ==
    IF d[3] < DaysIn(d[1], d[2]) THEN << d[1], d[2], d[3] + 1 >>
    ELSE IF d[2] < 12 THEN << d[1], d[2] + 1, 1 >>
    ELSE << d[1] + 1, 1, 1 >>

\* C10: "right"/"l" moves the selected date to the next calendar date and
\* "left"/"h" to the previous one, at the end of a month, of a year and in
\* the nights the offset changes; "right" followed by "left" gives the
\* calendar date it started from.
C10_DateKeysMoveOneCalendarDay ==
    \A s \in Connected :
        LET t == sess[s].selectedDate
        IN  /\ \A key \in {"right", "l"} :
                   DateOf(After(s, KeyMsg(key)).selectedDate) =
                       NextDay(DateOf(t))
            /\ \A key \in {"left", "h"} :
                   NextDay(DateOf(After(s, KeyMsg(key)).selectedDate)) =
                       DateOf(t)
            /\ DateOf(Update(After(s, KeyMsg("right")), KeyMsg("left"),
                             zones, clock).selectedDate) = DateOf(t)

\* C10 witness: a session started on 26 October 2025 at 00:00, the day of 25
\* hours, after "right" was handled: the selected date is 27 October
C10_Witness ==
    \E s \in Sessions :
        /\ clock = GoDate(2025, 10, 26, 0)
        /\ pc[s] = "view" /\ screen[s].kind = "loading"
        /\ DateOf(sess[s].selectedDate) = << 2025, 10, 27 >>

---------------------------------------------------------------------------
(* Further claims checked under Spec *)

\* C11: on every render the offset used to slice the content pane is the
\* stored offset clamped into 0 .. max(totalLines - viewportHeight, 0), with
\* viewportHeight taken from the current height and totalLines from the
\* current content; it is never negative and never above that maximum, for
\* every totalLines >= 0 and viewportHeight >= 0.
C11_SliceOffsetIsClampedStoredOffset ==
    /\ \A offset \in (-2)..8, totalLines \in 0..6, viewportHeight \in 0..6 :
           LET most == IF totalLines > viewportHeight
                       THEN totalLines - viewportHeight ELSE 0
               got == clamp(offset, totalLines, viewportHeight)
           IN  /\ got >= 0 /\ got <= most
               /\ offset \in 0..most => got = offset
    /\ \A s \in Connected :
           LET m == sess[s]
               r == renderRestaurant(m, m.currentView)
               totalLines == Len(r.content)
               viewportHeight == m.height - 5
               most == IF totalLines > viewportHeight
                       THEN totalLines - viewportHeight ELSE 0
               expected == IF m.scrollOffset > most THEN most
                           ELSE IF m.scrollOffset < 0 THEN 0
                           ELSE m.scrollOffset
           IN  composes(m) =>
                   /\ r.offset = expected /\ r.maxOffset = most
                   /\ r.lines = SubSeq(r.content, expected + 1, totalLines)
                   /\ s \in Rendered =>
                          /\ screen[s].content = r.content
                          /\ screen[s].offset = expected
                          /\ screen[s].maxOffset = most

\* C11 witness: a render of a pane longer than the window, with a stored
\* offset beyond the largest one: the render used the largest
C11_Witness ==
    \E s \in Rendered :
        /\ screen[s].maxOffset > 0
        /\ sess[s].scrollOffset > screen[s].maxOffset
        /\ screen[s].offset = screen[s].maxOffset

\* C12 as claimed: once a session has ended, its fetch is not in flight.
C12_NoFetchInFlightAfterEnd ==
    \A s \in Sessions : pc[s] = "done" => fetch[s].st # "running"

\* C13 as claimed: a render leaves the session's model, the order of the
\* items of every menu included, as it was.
C13_RenderLeavesSessionUnchanged ==
    [][\A s \in Sessions :
           pc[s] = "view" /\ pc'[s] = "wait" => sess'[s] = sess[s]]_vars

\* the wheel events: either wheel button, with any action, anywhere
WheelMsgs ==
    { MouseMsg(p[1], p[2], b, a) :
          p \in { <<5, 4>>, <<30, 4>> },
          b \in {"WheelUp", "WheelDown"}, a \in {"Press", "Release"} }

\* C14: in every reachable state a wheel-up event yields
\* scrollOffset = max(0, scrollOffset - 2) and a wheel-down event yields
\* scrollOffset + 2; scrollOffset is never negative, and neither event
\* changes the campus index, the selected date, the loading flag, the size
\* or the dataset.
C14_WheelMovesScrollByTwo ==
    \A s \in Connected :
        /\ sess[s].scrollOffset >= 0
        /\ \A msg \in WheelMsgs :
               LET old == sess[s].scrollOffset
                   new == IF msg.Button = "WheelDown" THEN old + 2
                          ELSE IF old - 2 > 0 THEN old - 2 ELSE 0
               IN  After(s, msg) = [sess[s] EXCEPT !.scrollOffset = new]

\* C14 witness: a wheel-up event has taken the stored offset from 4, which
\* the last render showed, to 2
C14_Witness ==
    \E s \in Sessions :
        /\ pc[s] = "view" /\ screen[s].kind = "main" /\ screen[s].offset = 4
        /\ sess[s].currentView = screen[s].selected
        /\ sess[s].scrollOffset = 2

\* the mouse events that are not wheel events, inside the first two zones,
\* inside the last one and outside every zone
PlainMouseMsgs ==
    { MouseMsg(p[1], p[2], b, a) :
          p \in { <<5, 4>>, <<5, 9>>, <<5, 24>>, <<30, 4>> },
          b \in {"Left", "Right", "Middle", "None"},
          a \in {"Press", "Release", "Motion"} }

\* the campuses whose zone in the registry holds the point of msg
Resolved(msg) == { i \in 0..(totalViews - 1) : InBounds(zones[i], msg) }

\* C15: a left-button release resolved to a campus other than the current
\* one sets the campus index to that campus and scrollOffset to 0; a
\* left-button release on the current campus's zone or outside every zone,
\* and every other mouse event that is not a wheel event, leaves the whole
\* model unchanged.
C15_ClickZone ==
    \A s \in Connected :
        \A msg \in PlainMouseMsgs :
            LET hits == Resolved(msg) \ {sess[s].currentView}
            IN  /\ Cardinality(Resolved(msg)) <= 1
                /\ IF msg.Button = "Left" /\ msg.Action = "Release"
                      /\ hits # {}
                   THEN \A i \in hits :
                            After(s, msg) =
                                [sess[s] EXCEPT !.currentView = i,
                                                !.scrollOffset = 0]
                   ELSE After(s, msg) = sess[s]

\* C15 witness: from a render of the Kumpula view the session has moved to
\* Viikki in one event, which only a click does
C15_Witness ==
    \E s \in Sessions :
        /\ pc[s] = "view" /\ screen[s].kind = "main"
        /\ screen[s].selected = kumpulaView
        /\ sess[s].currentView = viikkiView /\ sess[s].scrollOffset = 0

\* C16: a resize to (w, h) sets width and height to (w, h) and leaves
\* scrollOffset, campus index, selected date, loading flag and dataset
\* unchanged.
C16_ResizeSetsSizeOnly ==
    \A s \in Connected :
        \A size \in Sizes \cup { <<0, 0>>, <<120, 40>> } :
            LET m == After(s, WindowSizeMsg(size[1], size[2]))
            IN  /\ m.width = size[1] /\ m.height = size[2]
                /\ m = [sess[s] EXCEPT !.width = size[1], !.height = size[2]]

\* C16 witness: the last render was of a terminal that was too small, the
\* session has since been resized to a size that is not, and the offset
\* scrolled to before is still there
C16_Witness ==
    \E s \in Sessions :
        /\ pc[s] = "view" /\ screen[s] = BlankScreen("small")
        /\ ~sess[s].loading /\ ~tooSmall(sess[s])
        /\ sess[s].scrollOffset > 0

\* C18: the unicafeDataMsg changes the loading flag and the dataset only;
\* while loading, campus keys, date keys, wheel and resize events are
\* handled as at any other time, and the campus index, selected date,
\* scrollOffset and size they left are there when the message is handled.
C18_DataLoadedKeepsTheRest ==
    \A s \in Connected :
        /\ fetch[s].st = "sent" =>
               LET m == After(s, fetch[s].msg)
               IN  /\ ~m.loading /\ m.data = fetch[s].msg.data
                   /\ m.currentView = sess[s].currentView
                   /\ m.selectedDate = sess[s].selectedDate
                   /\ m.scrollOffset = sess[s].scrollOffset
                   /\ m.width = sess[s].width /\ m.height = sess[s].height
        /\ sess[s].loading =>
               /\ After(s, KeyMsg("down")).currentView
                      = (sess[s].currentView + 1) % totalViews
               /\ After(s, KeyMsg("up")).currentView
                      = (sess[s].currentView + totalViews - 1) % totalViews
               /\ After(s, KeyMsg("right")).selectedDate
                      = AddDate(sess[s].selectedDate, 1)
               /\ After(s, KeyMsg("left")).selectedDate
                      = AddDate(sess[s].selectedDate, -1)
               /\ After(s, MouseMsg(30, 4, "WheelDown", "Press")).scrollOffset
                      = sess[s].scrollOffset + 2
               /\ After(s, WindowSizeMsg(50, 12)).height = 12
               /\ After(s, WindowSizeMsg(50, 12)).width = 50

\* C18 witness: the message has been handled after a campus key, a date key,
\* a wheel event and a resize were handled while loading, and what they
\* left is in the model
C18_Witness ==
    \E s \in Sessions :
        /\ fetch[s].st = "delivered" /\ ~sess[s].loading
        /\ pc[s] = "view" /\ screen[s] = BlankScreen("loading")
        /\ sess[s].currentView = keskustaView /\ sess[s].scrollOffset = 2
        /\ sess[s].selectedDate # clock
        /\ sess[s].height = 12 /\ sess[s].data # << >>

---------------------------------------------------------------------------
(* A further claim checked under RenderSpec *)

\* the campuses whose list in the table holds title
CampusesOf(title) ==
    { idx \in 0..(totalViews - 1) :
          title \in LOCATION_RESTAURANTS[LOCATIONS[idx + 1]] }

\* the campuses whose view, rendered from model m, has a section of title
ShownIn(m, title) ==
    { idx \in 0..(totalViews - 1) :
          LET content == renderRestaurant(m, idx).content
          IN  \E k \in 1..Len(content) :
                  content[k].kind = "header" /\ content[k].title = title }

\* C17: a restaurant whose title is in no list of the campus table appears
\* in no campus view, and one whose title is in the table appears only in
\* the view of the one campus that lists it; the table gives every title
\* to exactly one campus and has an entry for every campus of LOCATIONS.
C17_RestaurantOnlyInItsCampus ==
    /\ DOMAIN LOCATION_RESTAURANTS = { LOCATIONS[i] : i \in 1..Len(LOCATIONS) }
    /\ Len(LOCATIONS) = totalViews
    /\ \A c \in DOMAIN LOCATION_RESTAURANTS :
           \A t \in LOCATION_RESTAURANTS[c] : Cardinality(CampusesOf(t)) = 1
    /\ \A s \in Connected :
           \A i \in 1..Len(sess[s].data) :
               LET title == sess[s].data[i].Title
               IN  /\ ShownIn(sess[s], title) \subseteq CampusesOf(title)
                   /\ Cardinality(ShownIn(sess[s], title)) <= 1
                   /\ s \in Rendered /\ screen[s].selected \notin CampusesOf(title)
                          => \A k \in 1..Len(screen[s].content) :
                                 screen[s].content[k].kind = "header"
                                     => screen[s].content[k].title # title

\* C17 witness: the Kumpula view was rendered for a day on which a
\* restaurant outside the table has a menu, next to one of Kumpula's
C17_Witness ==
    \E s \in Rendered :
        /\ screen[s].selected = kumpulaView /\ screen[s].found
        /\ \E i \in 1..Len(sess[s].data) :
               /\ sess[s].data[i].Title = "Kahvila"
               /\ CampusesOf("Kahvila") = {}
               /\ \E j \in 1..Len(sess[s].data[i].Menus) :
                      sess[s].data[i].Menus[j].Date
                          = DateStr(sess[s].selectedDate)
        /\ \E i \in 1..Len(sess[s].data) :
               /\ sess[s].data[i].Title = "Serpens"
               /\ CampusesOf("Serpens") = {3}

====
